---- MODULE Spec2Model ----
(***************************************************************************)
(* Storage layer of BiliTools (src-tauri/src/storage): the connection      *)
(* manager and the per-table migration engine (db.rs), the config store    *)
(* (config.rs), the cookie jar (cookies.rs) and the task archive           *)
(* (archive.rs), as a state machine over the database file, the process-   *)
(* wide connection handle and the published settings snapshot.             *)
(***************************************************************************)
EXTENDS Integers, Sequences, FiniteSets, TLC

VARIABLES
    DB,      \* db.rs:23   static DB: OnceLock<SqlitePool>
    pools,   \* number of pools this process has connected (pool identities)
    store,   \* the database file at STORAGE_PATH: present or not, and its image
    side,    \* the -wal / -shm side files of STORAGE_PATH
    bak,     \* STORAGE_PATH.with_extension("bak")
    imp,     \* position of the import() call in flight, its input and its step log
    CONFIG,  \* shared::CONFIG, the published Settings snapshot (ArcSwap)
    cfg,     \* the Config Store calls in flight (one slot per caller)
    seen,    \* the snapshot the last read() of the concurrent reader returned
    checked, \* the tables whose check_latest this process has run
    runs,    \* how many times the process has been started again
    tasks,   \* queue::runtime::TASK_MANAGER.tasks, the in-memory task map
    exported, \* the file export() wrote last
    last     \* the call that completed last: operation, input, result

vars == <<DB, pools, store, side, bak, imp, CONFIG, cfg, seen, checked, runs, tasks, exported, last>>

(***************************************************************************)
(* Bounds of the model.                                                    *)
(***************************************************************************)
MaxPools == 2
MaxRestarts == 2

(***************************************************************************)
(* JSON values (serde_json::Value) and stored JSON text.                   *)
(***************************************************************************)
JBool(b) == [kind |-> "bool", b |-> b]
JStr(s) == [kind |-> "str", s |-> s]
JObj(f) == [kind |-> "obj", f |-> f]

\* serde_json::to_string: a value to its stored text.
to_string(v) == [wf |-> TRUE, v |-> v]
\* A stored text that is not JSON.
Malformed == [wf |-> FALSE]
\* A parse that takes text that is not JSON for a value.
from_str_any(t) == IF t.wf THEN [ok |-> TRUE, v |-> t.v] ELSE [ok |-> TRUE, v |-> JBool(FALSE)]
\* serde_json::from_str: fails on text that is not JSON.
from_str(t) == IF t.wf THEN [ok |-> TRUE, v |-> t.v] ELSE [ok |-> FALSE]

(***************************************************************************)
(* The logical tables and their target versions.                           *)
(***************************************************************************)
ConfigNAME == "config"
CookiesNAME == "cookies"
ArchiveNAME == "archive"
Tables == {ConfigNAME, CookiesNAME, ArchiveNAME}

ConfigLATEST == 1
CookiesLATEST == 1
ArchiveLATEST == 2

LATEST(t) ==
    CASE t = ConfigNAME -> ConfigLATEST
      [] t = CookiesNAME -> CookiesLATEST
      [] t = ArchiveNAME -> ArchiveLATEST

(***************************************************************************)
(* A database image: the meta table, the logical tables, and the archival  *)
(* tables NAME_ts left by earlier upgrades, oldest first (get_ts(true) is  *)
(* a millisecond clock: every upgrade gets a later ts and so a new name).  *)
(* A table has the shape of the schema version whose create statement made *)
(* it.                                                                     *)
(***************************************************************************)
NoRows == [k \in {} |-> Malformed]
NoTable == [exists |-> FALSE, shape |-> 0, rows |-> NoRows]
NoMeta == [exists |-> FALSE, ver |-> [k \in {} |-> 0]]

EmptyImage ==
    [meta |-> NoMeta, tab |-> [t \in Tables |-> NoTable], old |-> [t \in Tables |-> <<>>]]
\* The task map of a process that has loaded nothing.
NoTasks == <<>>
NoFile == [present |-> FALSE, img |-> EmptyImage]

\* A database written by an earlier release: every table at version 1, the
\* archive (target 2) in its old shape, one row in the config and archive tables.
LegacyTask == JObj([id |-> JStr("t1"), state |-> JStr("active"), title |-> JStr("x")])
LegacyRows(t) ==
    CASE t = ConfigNAME -> [k \in {"notify"} |-> to_string(JBool(FALSE))]
      [] t = CookiesNAME -> NoRows
      [] t = ArchiveNAME -> [k \in {"t1"} |-> to_string(LegacyTask)]
LegacyImage ==
    [meta |-> [exists |-> TRUE, ver |-> [t \in Tables |-> 1]],
     tab |-> [t \in Tables |-> [exists |-> TRUE, shape |-> 1, rows |-> LegacyRows(t)]],
     old |-> [t \in Tables |-> <<>>]]

Images == {EmptyImage, LegacyImage}
\* The files import() may be given: readable with an image, or unreadable.
Sources == [readable : BOOLEAN, img : Images]

(***************************************************************************)
(* db.rs: the connection handle.                                           *)
(***************************************************************************)
Unset == [set |-> FALSE, id |-> 0, closed |-> FALSE]

\* get_db: the pool in the OnceLock, or "Database not initialized".
get_db == IF DB.set THEN "ok" ELSE "NotInitialized"

\* A statement can run: the handle is set and its pool is not closed.
PoolLive == DB.set /\ ~DB.closed

\* DB.set(pool): a OnceLock keeps its first value and refuses a second.
OnceLock_set_replace(cell, pool) == [ok |-> TRUE, cell |-> pool]
OnceLock_set(cell, pool) ==
    IF cell.set THEN [ok |-> FALSE, cell |-> cell] ELSE [ok |-> TRUE, cell |-> pool]

\* init_db: connect a pool (create_if_missing, WAL journal), then DB.set(pool).
\* connectOk is whether connect_with succeeded.
init_db(connectOk) ==
    IF ~connectOk
    THEN [res |-> "IoFailure", DB |-> DB, store |-> store, side |-> side, pools |-> pools]
    ELSE LET pool == [set |-> TRUE, id |-> pools + 1, closed |-> FALSE]
             r == OnceLock_set(DB, pool)
         IN [res |-> IF r.ok THEN "ok" ELSE "AlreadyInitialized",
             DB |-> r.cell,
             store |-> [store EXCEPT !.present = TRUE],
             side |-> [wal |-> TRUE, shm |-> TRUE],
             pools |-> pools + 1]

\* close_db: close the pool if the handle is set; the handle stays set.
close_db_skip == [DB |-> DB, side |-> side]
close_db ==
    IF DB.set
    THEN [DB |-> [DB EXCEPT !.closed = TRUE],
          side |-> IF DB.closed THEN side ELSE [wal |-> FALSE, shm |-> FALSE]]
    ELSE [DB |-> DB, side |-> side]

(***************************************************************************)
(* db.rs: the meta table and TableSpec::check_latest.                      *)
(***************************************************************************)
init_meta(img) == [img EXCEPT !.meta.exists = TRUE]

get_version(img, name) ==
    IF name \in DOMAIN img.meta.ver THEN img.meta.ver[name] ELSE 0

set_version(img, name, value) ==
    [img EXCEPT !.meta.ver =
        [k \in (DOMAIN img.meta.ver) \cup {name} |->
            IF k = name THEN value ELSE img.meta.ver[k]]]

\* ALTER TABLE name RENAME TO name_ts: fails when the table does not exist.
rename_ok(img, t) == img.tab[t].exists
rename(img, t) ==
    [img EXCEPT !.tab[t] = NoTable,
                !.old[t] = Append(@, [shape |-> img.tab[t].shape,
                                      rows |-> img.tab[t].rows])]

\* create_stmt: CREATE TABLE IF NOT EXISTS in the current shape.
create_stmt(img, t) ==
    IF img.tab[t].exists THEN img
    ELSE [img EXCEPT !.tab[t] = [exists |-> TRUE, shape |-> LATEST(t), rows |-> NoRows]]

\* migrate_data: the default hook, which no table overrides.
migrate_data(img, t) == img

\* The test of check_latest: an upgrade runs when the stored version differs.
NeedsUpgrade_always(cur, t) == TRUE
NeedsUpgrade(cur, t) == cur # LATEST(t)

\* The step of check_latest a failure is injected at.
FailPoints ==
    {"none", "init_meta", "get_version", "begin", "rename", "create", "commit",
     "set_version"}

\* check_latest on image img: the result, the image left behind, the version
\* read, and what took effect ("upgrade": the upgrade branch was entered).
check_latest(img, t, fail) ==
    LET out(res, i, cur, did) == [res |-> res, img |-> i, cur |-> cur, did |-> did]
    IN
    IF get_db # "ok" THEN out("NotInitialized", img, 0, {})
    ELSE IF DB.closed \/ fail = "init_meta" THEN out("QueryFailure", img, 0, {})
    ELSE LET m == init_meta(img)
             cur == get_version(m, t)
         IN
         IF fail = "get_version" THEN out("QueryFailure", m, 0, {})
         ELSE IF ~NeedsUpgrade(cur, t) THEN out("ok", m, cur, {})
         ELSE IF fail = "begin" THEN out("QueryFailure", m, cur, {"upgrade"})
         ELSE LET renamed == rename_ok(m, t) /\ fail # "rename"
                  r == IF renamed THEN rename(m, t) ELSE m
                  c == create_stmt(r, t)
                  d == migrate_data(c, t)
                  did == (IF renamed THEN {"rename"} ELSE {})
                         \cup (IF ~r.tab[t].exists THEN {"create"} ELSE {})
              IN
              IF fail \in {"create", "commit"}
              THEN out("QueryFailure", m, cur, {"upgrade", "rollback"})
              ELSE IF fail = "set_version"
              THEN out("QueryFailure", d, cur, {"upgrade", "commit"} \cup did)
              ELSE out("ok", set_version(d, t, LATEST(t)), cur,
                       {"upgrade", "commit", "set_version"} \cup did)

(***************************************************************************)
(* config.rs: Settings, its generic object form, and the stored rows.      *)
(* Two of the fields of Settings are kept: a scalar one (notify: bool) and *)
(* a nested one (proxy: SettingsProxy).                                    *)
(***************************************************************************)
ScalarFields == {"notify"}
NestedFields == {"proxy"}
Fields == ScalarFields \cup NestedFields
NestedKeys == {"address", "username"}
\* The order serde_json::Map iterates the fields in.
FieldOrder == <<"notify", "proxy">>

\* Settings::default(), the value CONFIG holds when the process starts.
DefaultSettings ==
    [n \in Fields |->
        IF n \in ScalarFields THEN TRUE ELSE [sk \in NestedKeys |-> ""]]

\* serde_json::to_value(settings): the fields of the generic object.
to_value(s) ==
    [n \in Fields |->
        IF n \in ScalarFields THEN JBool(s[n])
        ELSE JObj([sk \in NestedKeys |-> JStr(s[n][sk])])]

\* Whether a value deserializes as field n of Settings.
FieldOk(n, val) ==
    IF n \in ScalarFields THEN val.kind = "bool"
    ELSE /\ val.kind = "obj"
         /\ \A sk \in NestedKeys : sk \in DOMAIN val.f /\ val.f[sk].kind = "str"

\* serde_json::from_value::<Settings>: every field present and of its type;
\* names that are no field of the struct are ignored.
from_value(f) ==
    IF \A n \in Fields : n \in DOMAIN f /\ FieldOk(n, f[n])
    THEN [ok |-> TRUE,
          s |-> [n \in Fields |->
                    IF n \in ScalarFields THEN f[n].b
                    ELSE [sk \in NestedKeys |-> f[n].f[sk].s]]]
    ELSE [ok |-> FALSE]

\* read(): the published snapshot.
read == CONFIG

\* A function with key k set to v (serde_json::Map::insert, an upsert of a row).
Put(f, k, v) == [x \in (DOMAIN f) \cup {k} |-> IF x = k THEN v ELSE f[x]]

\* The rows of a table of the live database.
Rows(t) == store.img.tab[t].rows
\* A statement on table t can run: live pool, and the table exists.
CanQuery(t) == PoolLive /\ store.present /\ store.img.tab[t].exists

(***************************************************************************)
(* config.rs: load().  A call is a frame: its position and its locals.     *)
(***************************************************************************)
Idle == [op |-> "idle"]

\* Lines 99-118: fetch and parse every row, then take read() as the defaults.
load_begin(rows) ==
    IF get_db # "ok" THEN [op |-> "load", res |-> "NotInitialized", persisted |-> {}]
    ELSE IF ~CanQuery(ConfigNAME)
    THEN [op |-> "load", res |-> "QueryFailure", persisted |-> {}]
    ELSE IF \E k \in DOMAIN rows : ~from_str(rows[k]).ok
    THEN [op |-> "load", res |-> "SerializationFailure", persisted |-> {}]
    ELSE [op |-> "load", res |-> "run", pc |-> 1,
          local |-> [k \in DOMAIN rows |-> from_str(rows[k]).v],
          local0 |-> [k \in DOMAIN rows |-> from_str(rows[k]).v],
          defaults |-> to_value(read),
          persisted |-> {}]

\* Lines 135-139: the nested keys of the default missing from the stored object.
MergeObj_overwrite(default_obj, local_obj) ==
    [sk \in (DOMAIN default_obj) \cup (DOMAIN local_obj) |->
        IF sk \in DOMAIN default_obj THEN default_obj[sk] ELSE local_obj[sk]]
MergeObj(default_obj, local_obj) ==
    [sk \in (DOMAIN default_obj) \cup (DOMAIN local_obj) |->
        IF sk \in DOMAIN local_obj THEN local_obj[sk] ELSE default_obj[sk]]

\* insert(name, value): the upsert of one config row; it fails without a
\* live pool or when the statement fails (insertOk).
insert(rows, name, value, insertOk) ==
    IF insertOk /\ CanQuery(ConfigNAME)
    THEN [ok |-> TRUE, rows |-> Put(rows, name, to_string(value))]
    ELSE [ok |-> FALSE, rows |-> rows]

\* Lines 125-144, one turn of the loop: the field at fr.pc.
load_key(fr, rows, insertOk) ==
    LET key == FieldOrder[fr.pc]
        dv == fr.defaults[key]
        vacant == key \notin DOMAIN fr.local
        both == ~vacant /\ dv.kind = "obj" /\ fr.local[key].kind = "obj"
        nv == IF vacant THEN dv
              ELSE IF both THEN JObj(MergeObj(dv.f, fr.local[key].f))
              ELSE fr.local[key]
        ins == insert(rows, key, nv, insertOk)
    IN
    IF ~(vacant \/ both)
    THEN [fr |-> [fr EXCEPT !.pc = @ + 1], rows |-> rows]
    ELSE IF ins.ok
    THEN [fr |-> [fr EXCEPT !.pc = @ + 1, !.local = Put(@, key, nv),
                            !.persisted = @ \cup {key}],
          rows |-> ins.rows]
    ELSE [fr |-> [op |-> "load", res |-> "QueryFailure", persisted |-> fr.persisted],
          rows |-> rows]

\* Line 146: deserialize the working map and store it as the snapshot.
load_publish(fr) ==
    LET r == from_value(fr.local)
    IN IF r.ok THEN [res |-> "ok", CONFIG |-> r.s, stored |-> TRUE]
       ELSE [res |-> "SerializationFailure", CONFIG |-> CONFIG, stored |-> FALSE]

\* The loop of load() run to its end; the insert of field number failAt fails.
RECURSIVE LoadKeys(_, _, _)
LoadKeys(fr, rows, failAt) ==
    IF fr.res # "run" \/ fr.pc > Len(FieldOrder) THEN [fr |-> fr, rows |-> rows]
    ELSE LET r == load_key(fr, rows, fr.pc # failAt)
         IN LoadKeys(r.fr, r.rows, failAt)

(***************************************************************************)
(* config.rs: write().                                                     *)
(***************************************************************************)
\* The names a client may send: the fields and one that is no field.
Names == Fields \cup {"bogus"}
\* The order serde_json::Map iterates the pairs of a payload in.
NameOrder == <<"bogus", "notify", "proxy">>

\* Line 178-180: the pairs whose name is a key of the current config.
write_filter_all(settings, config_keys) == DOMAIN settings
write_filter(settings, config_keys) == {k \in DOMAIN settings : k \in config_keys}

\* Lines 171-188: serialize read(), filter the payload.
write_begin(settings) ==
    LET current_config == to_value(read)
        valid == write_filter(settings, DOMAIN current_config)
    IN [op |-> "write", arg |-> settings,
        res |-> IF valid = {} THEN "ok" ELSE "run",
        current |-> current_config,
        base |-> current_config,
        pending |-> SelectSeq(NameOrder, LAMBDA k : k \in valid),
        persisted |-> {}, stored |-> FALSE]

\* Lines 190-193, one turn of the loop: persist the pair, fold it into the
\* local copy current_config; the published snapshot is not touched here.
write_pair_early(fr, rows, insertOk) ==
    LET key == Head(fr.pending)
        value == fr.arg[key]
        ins == insert(rows, key, value, insertOk)
        folded == from_value(Put(fr.current, key, value))
    IN
    IF get_db # "ok"
    THEN [fr |-> [fr EXCEPT !.res = "NotInitialized"], rows |-> rows, snapshot |-> CONFIG]
    ELSE IF ~ins.ok
    THEN [fr |-> [fr EXCEPT !.res = "QueryFailure"], rows |-> rows, snapshot |-> CONFIG]
    ELSE [fr |-> [fr EXCEPT !.pending = Tail(@), !.current = Put(@, key, value),
                            !.persisted = @ \cup {key}],
          rows |-> ins.rows,
          snapshot |-> IF folded.ok THEN folded.s ELSE CONFIG]
write_pair(fr, rows, insertOk) ==
    LET key == Head(fr.pending)
        value == fr.arg[key]
        ins == insert(rows, key, value, insertOk)
    IN
    IF get_db # "ok"
    THEN [fr |-> [fr EXCEPT !.res = "NotInitialized"], rows |-> rows, snapshot |-> CONFIG]
    ELSE IF ~ins.ok
    THEN [fr |-> [fr EXCEPT !.res = "QueryFailure"], rows |-> rows, snapshot |-> CONFIG]
    ELSE [fr |-> [fr EXCEPT !.pending = Tail(@), !.current = Put(@, key, value),
                            !.persisted = @ \cup {key}],
          rows |-> ins.rows,
          snapshot |-> CONFIG]

\* Line 195: deserialize the updated object and store it as the snapshot.
write_publish(fr) ==
    LET r == from_value(fr.current)
    IN IF r.ok THEN [res |-> "ok", CONFIG |-> r.s, stored |-> TRUE]
       ELSE [res |-> "SerializationFailure", CONFIG |-> CONFIG, stored |-> FALSE]

\* The loop of write() run to its end; the insert of pair number failAt fails.
RECURSIVE WritePairs(_, _, _, _)
WritePairs(fr, rows, i, failAt) ==
    IF fr.res # "run" \/ fr.pending = <<>>
    THEN [fr |-> fr, rows |-> rows, snapshot |-> CONFIG]
    ELSE LET r == write_pair(fr, rows, i # failAt)
         IN WritePairs(r.fr, r.rows, i + 1, failAt)

(***************************************************************************)
(* The connection manager and the migration engine as actions.             *)
(***************************************************************************)
NoSideFiles == [wal |-> FALSE, shm |-> FALSE]
ImpIdle == [pc |-> "idle", src |-> [readable |-> FALSE, img |-> EmptyImage],
            log |-> <<>>, wasLive |-> FALSE, hadFile |-> FALSE]
\* The callers of the Config Store that may run at the same time.
Callers == {"a", "b"}

ConfigIdle == /\ CONFIG' = CONFIG /\ cfg' = cfg /\ seen' = seen
StartupIdle == /\ checked' = checked /\ runs' = runs

\* init_db()
InitDb ==
    /\ imp.pc = "idle"
    /\ pools < MaxPools
    /\ \E connectOk \in BOOLEAN :
          LET r == init_db(connectOk)
          IN /\ DB' = r.DB
             /\ store' = r.store
             /\ side' = r.side
             /\ pools' = r.pools
             /\ last' = [op |-> "init_db", res |-> r.res]
    /\ UNCHANGED <<exported, tasks, bak, imp>>
    /\ ConfigIdle
    /\ StartupIdle

\* get_db()
GetDb ==
    /\ imp.pc = "idle"
    /\ last' = [op |-> "get_db", res |-> get_db]
    /\ UNCHANGED <<exported, tasks, DB, pools, store, side, bak, imp>>
    /\ ConfigIdle
    /\ StartupIdle

\* close_db()
CloseDb ==
    /\ imp.pc = "idle"
    /\ DB' = close_db.DB
    /\ side' = close_db.side
    /\ last' = [op |-> "close_db", res |-> "ok"]
    /\ UNCHANGED <<exported, tasks, pools, store, bak, imp>>
    /\ ConfigIdle
    /\ StartupIdle

\* T::check_latest() for one of the tables, once per table and process
\* (storage::init, called from lib.rs:122).
CheckLatest ==
    /\ imp.pc = "idle"
    /\ \E t \in Tables \ checked, fail \in FailPoints :
          LET r == check_latest(store.img, t, fail)
          IN /\ store' = [store EXCEPT !.img = r.img]
             /\ checked' = checked \cup {t}
             /\ last' = [op |-> "check_latest", table |-> t,
                         res |-> r.res, cur |-> r.cur, did |-> r.did]
    /\ UNCHANGED <<exported, tasks, DB, pools, side, bak, imp, runs>>
    /\ ConfigIdle

\* import(input), lines 153-156: back the current file up if there is one.
ImportBegin(Srcs) ==
    /\ imp.pc = "idle"
    /\ pools < MaxPools
    /\ \E src \in Srcs, copyOk \in BOOLEAN :
          IF store.present /\ ~copyOk
          THEN /\ imp' = [ImpIdle EXCEPT !.src = src, !.wasLive = PoolLive,
                                         !.hadFile = store.present]
               /\ bak' = bak
               /\ last' = [op |-> "import", res |-> "IoFailure", step |-> "backup"]
          ELSE /\ imp' = [pc |-> "close", src |-> src,
                          log |-> IF store.present THEN <<"backup">> ELSE <<>>,
                          wasLive |-> PoolLive, hadFile |-> store.present]
               /\ bak' = IF store.present THEN store ELSE bak
               /\ last' = [op |-> "import", res |-> "pending", step |-> "backup"]
    /\ UNCHANGED <<exported, tasks, DB, pools, store, side>>
    /\ ConfigIdle
    /\ StartupIdle

ImportBackup == ImportBegin(Sources)

\* import, line 159: close_db().
ImportClose ==
    /\ imp.pc = "close"
    /\ DB' = close_db.DB
    /\ side' = close_db.side
    /\ imp' = [imp EXCEPT !.pc = "remove", !.log = Append(@, "close")]
    /\ last' = [op |-> "import", res |-> "pending", step |-> "close"]
    /\ UNCHANGED <<exported, tasks, pools, store, bak>>
    /\ ConfigIdle
    /\ StartupIdle

\* import, lines 162-165: remove the file and its -wal and -shm, errors ignored.
ImportRemove ==
    /\ imp.pc = "remove"
    /\ store' = NoFile
    /\ side' = NoSideFiles
    /\ imp' = [imp EXCEPT !.pc = "copy",
                          !.log = @ \o <<"remove_db", "remove_wal", "remove_shm">>]
    /\ last' = [op |-> "import", res |-> "pending", step |-> "remove"]
    /\ UNCHANGED <<exported, tasks, DB, pools, bak>>
    /\ ConfigIdle
    /\ StartupIdle

\* import, line 166: copy the input into place.
ImportCopy ==
    /\ imp.pc = "copy"
    /\ IF imp.src.readable
       THEN /\ store' = [present |-> TRUE, img |-> imp.src.img]
            /\ imp' = [imp EXCEPT !.pc = "reopen", !.log = Append(@, "copy")]
            /\ last' = [op |-> "import", res |-> "pending", step |-> "copy"]
       ELSE /\ store' = store
            /\ imp' = [imp EXCEPT !.pc = "idle"]
            /\ last' = [op |-> "import", res |-> "IoFailure", step |-> "copy"]
    /\ UNCHANGED <<exported, tasks, DB, pools, side, bak>>
    /\ ConfigIdle
    /\ StartupIdle

\* import, line 169: init_db().
ImportReopen ==
    /\ imp.pc = "reopen"
    /\ \E connectOk \in BOOLEAN :
          LET r == init_db(connectOk)
          IN /\ DB' = r.DB
             /\ store' = r.store
             /\ side' = r.side
             /\ pools' = r.pools
             /\ last' = [op |-> "import", res |-> r.res, step |-> "reopen"]
    /\ imp' = [imp EXCEPT !.pc = "idle", !.log = Append(@, "reopen")]
    /\ UNCHANGED <<exported, tasks, bak>>
    /\ ConfigIdle
    /\ StartupIdle

\* The process exits and is started again: the statics are fresh, the files stay.
Restart ==
    /\ imp.pc = "idle"
    /\ runs < MaxRestarts
    /\ runs' = runs + 1
    /\ checked' = {}
    /\ DB' = Unset
    /\ pools' = 0
    /\ CONFIG' = DefaultSettings
    /\ seen' = DefaultSettings
    /\ tasks' = NoTasks
    /\ last' = [op |-> "restart", res |-> "ok"]
    /\ UNCHANGED <<exported, store, side, bak, imp, cfg>>

Init ==
    /\ DB = Unset
    /\ pools = 0
    /\ store \in {NoFile, [present |-> TRUE, img |-> LegacyImage]}
    /\ side = NoSideFiles
    /\ bak = NoFile
    /\ imp = ImpIdle
    /\ CONFIG = DefaultSettings
    /\ cfg = [p \in Callers |-> Idle]
    /\ seen = DefaultSettings
    /\ checked = {}
    /\ runs = 0
    /\ tasks = NoTasks
    /\ exported = NoFile
    /\ last = [op |-> "start", res |-> "ok"]

\* The connection manager: initialize, get, close, import, restart.
Next ==
    \/ InitDb
    \/ GetDb
    \/ CloseDb
    \/ ImportBackup
    \/ ImportClose
    \/ ImportRemove
    \/ ImportCopy
    \/ ImportReopen
    \/ Restart

Spec == Init /\ [][Next]_vars

\* The migration engine: startup passes of check_latest over the tables.
NextMigrate ==
    \/ InitDb
    \/ CheckLatest
    \/ Restart

SpecMigrate == Init /\ [][NextMigrate]_vars

(***************************************************************************)
(* The Config Store, one call at a time (SpecConfig).                      *)
(***************************************************************************)
\* The payloads of write(): a value per name sent.  For a field there is a
\* value of its type and one that is not; "bogus" is no field.
WriteValues(n) ==
    CASE n = "notify" -> {JBool(FALSE), JStr("yes")}
      [] n = "proxy" -> {JObj([sk \in NestedKeys |-> JStr("p")]),
                         JObj([sk \in {"address"} |-> JStr("q")])}
      [] n = "bogus" -> {JBool(TRUE)}
AllWriteValues == UNION {WriteValues(n) : n \in Names}
WriteInputs ==
    UNION {{f \in [D -> AllWriteValues] : \A n \in D : f[n] \in WriteValues(n)} :
           D \in SUBSET Names}

\* The config rows a database may hold when the store starts: none, or rows an
\* earlier release wrote (a field set by the user, a proxy object from before
\* a nested key was added, a row whose name is no longer a field), or a row
\* whose text is damaged.
StoredValues(n) ==
    CASE n = "notify" -> {to_string(JBool(FALSE)), Malformed}
      [] n = "proxy" -> {to_string(JObj([sk \in {"address"} |-> JStr("q")]))}
      [] n = "retired" -> {to_string(JStr("old"))}
StoredNames == Fields \cup {"retired"}
AllStoredValues == UNION {StoredValues(n) : n \in StoredNames}
InitConfigRows ==
    UNION {{f \in [D -> AllStoredValues] : \A n \in D : f[n] \in StoredValues(n)} :
           D \in SUBSET StoredNames}

\* The database after storage::init: every table created at its target version.
StartedImage(rows) ==
    [meta |-> [exists |-> TRUE, ver |-> [t \in Tables |-> LATEST(t)]],
     tab |-> [t \in Tables |->
                [exists |-> TRUE, shape |-> LATEST(t),
                 rows |-> IF t = ConfigNAME THEN rows ELSE NoRows]],
     old |-> [t \in Tables |-> <<>>]]

NoCall == \A p \in Callers : cfg[p] = Idle

\* load(), as one call.
Load ==
    /\ NoCall
    /\ \E failAt \in 0..Len(FieldOrder) :
          LET b == load_begin(Rows(ConfigNAME))
              r == IF b.res = "run" THEN LoadKeys(b, Rows(ConfigNAME), failAt)
                   ELSE [fr |-> b, rows |-> Rows(ConfigNAME)]
              pub == IF r.fr.res = "run" THEN load_publish(r.fr)
                     ELSE [res |-> r.fr.res, CONFIG |-> CONFIG, stored |-> FALSE]
          IN /\ store' = [store EXCEPT !.img.tab[ConfigNAME].rows = r.rows]
             /\ CONFIG' = pub.CONFIG
             /\ last' = [op |-> "load", res |-> pub.res,
                         persisted |-> r.fr.persisted, stored |-> pub.stored]
    /\ UNCHANGED <<exported, tasks, DB, pools, side, bak, imp, cfg, seen, checked, runs>>

\* write(settings), as one call.
Write ==
    /\ NoCall
    /\ \E settings \in WriteInputs, failAt \in 0..Cardinality(Fields) :
          LET b == write_begin(settings)
              r == IF b.res = "run" THEN WritePairs(b, Rows(ConfigNAME), 1, failAt)
                   ELSE [fr |-> b, rows |-> Rows(ConfigNAME)]
              pub == IF r.fr.res = "run" THEN write_publish(r.fr)
                     ELSE [res |-> r.fr.res, CONFIG |-> CONFIG, stored |-> FALSE]
          IN /\ store' = [store EXCEPT !.img.tab[ConfigNAME].rows = r.rows]
             /\ CONFIG' = pub.CONFIG
             /\ last' = [op |-> "write", arg |-> settings, res |-> pub.res,
                         persisted |-> r.fr.persisted, stored |-> pub.stored]
    /\ UNCHANGED <<exported, tasks, DB, pools, side, bak, imp, cfg, seen, checked, runs>>

\* read()
Read ==
    /\ seen' = read
    /\ last' = [op |-> "read", res |-> "ok"]
    /\ UNCHANGED <<exported, tasks, DB, pools, store, side, bak, imp, CONFIG, cfg, checked, runs>>

\* The process after storage::init and before config::load, the config table
\* holding one of the row sets of Stored.
StartedOn(Imgs) ==
    /\ DB = [set |-> TRUE, id |-> 1, closed |-> FALSE]
    /\ pools = 1
    /\ \E img \in Imgs : store = [present |-> TRUE, img |-> img]
    /\ side = [wal |-> TRUE, shm |-> TRUE]
    /\ bak = NoFile
    /\ imp = ImpIdle
    /\ CONFIG = DefaultSettings
    /\ cfg = [p \in Callers |-> Idle]
    /\ seen = DefaultSettings
    /\ checked = Tables
    /\ runs = 0
    /\ tasks = NoTasks
    /\ exported = NoFile
    /\ last = [op |-> "start", res |-> "ok"]

Started(Stored) == StartedOn({StartedImage(rows) : rows \in Stored})

NextConfig ==
    \/ Load
    \/ Write
    \/ CloseDb

InitConfig == Started(InitConfigRows)

SpecConfig == InitConfig /\ [][NextConfig]_vars

(***************************************************************************)
(* The Config Store with calls in flight at the same time (SpecConfigConc):*)
(* a call is suspended at each awaited insert; read() is a reader.         *)
(***************************************************************************)
SetRows(rows) == [store EXCEPT !.img.tab[ConfigNAME].rows = rows]

\* The payloads of the concurrent callers: every value of its field's type.
ConcWriteInputs == {f \in WriteInputs : \A n \in (DOMAIN f) \cap Fields : FieldOk(n, f[n])}
\* The rows at the start: a first run, or the rows of an earlier release.
ConcConfigRows == {f \in InitConfigRows : DOMAIN f \in {{}, Fields} /\ \A n \in DOMAIN f : f[n].wf}

\* load(), lines 99-107: the query has run; its rows wait for the caller to
\* be resumed.
LoadFetch(p) ==
    /\ cfg[p] = Idle
    /\ IF get_db = "ok" /\ CanQuery(ConfigNAME)
       THEN /\ cfg' = [cfg EXCEPT ![p] = [op |-> "fetched", rows |-> Rows(ConfigNAME)]]
            /\ last' = [op |-> "load", who |-> p, res |-> "pending"]
       ELSE /\ cfg' = cfg
            /\ last' = [op |-> "load", who |-> p, res |-> load_begin(Rows(ConfigNAME)).res]
    /\ UNCHANGED <<exported, tasks, DB, pools, store, side, bak, imp, CONFIG, seen, checked, runs>>

\* load(), lines 108-122: the caller resumes, parses the rows it fetched and
\* takes read() for the defaults.
LoadBegin(p) ==
    /\ cfg[p] # Idle
    /\ cfg[p].op = "fetched"
    /\ LET b == load_begin(cfg[p].rows)
       IN /\ cfg' = [cfg EXCEPT ![p] = IF b.res = "run" THEN b ELSE Idle]
          /\ last' = [op |-> "load", who |-> p,
                      res |-> IF b.res = "run" THEN "pending" ELSE b.res]
    /\ UNCHANGED <<exported, tasks, DB, pools, store, side, bak, imp, CONFIG, seen, checked, runs>>

LoadKey(p) ==
    /\ cfg[p] # Idle
    /\ cfg[p].op = "load"
    /\ cfg[p].pc <= Len(FieldOrder)
    /\ \E insertOk \in BOOLEAN :
          LET r == load_key(cfg[p], Rows(ConfigNAME), insertOk)
          IN /\ store' = SetRows(r.rows)
             /\ cfg' = [cfg EXCEPT ![p] = IF r.fr.res = "run" THEN r.fr ELSE Idle]
             /\ last' = [op |-> "load", who |-> p,
                         res |-> IF r.fr.res = "run" THEN "pending" ELSE r.fr.res]
    /\ UNCHANGED <<exported, tasks, DB, pools, side, bak, imp, CONFIG, seen, checked, runs>>

LoadPublish(p) ==
    /\ cfg[p] # Idle
    /\ cfg[p].op = "load"
    /\ cfg[p].pc > Len(FieldOrder)
    /\ LET pub == load_publish(cfg[p])
       IN /\ CONFIG' = pub.CONFIG
          /\ last' = [op |-> "load", who |-> p, res |-> pub.res]
    /\ cfg' = [cfg EXCEPT ![p] = Idle]
    /\ UNCHANGED <<exported, tasks, DB, pools, store, side, bak, imp, seen, checked, runs>>

WriteBegin(p) ==
    /\ cfg[p] = Idle
    /\ \E settings \in ConcWriteInputs :
          LET b == write_begin(settings)
          IN /\ cfg' = [cfg EXCEPT ![p] = IF b.res = "run" THEN b ELSE Idle]
             /\ last' = [op |-> "write", who |-> p,
                         res |-> IF b.res = "run" THEN "pending" ELSE b.res]
    /\ UNCHANGED <<exported, tasks, DB, pools, store, side, bak, imp, CONFIG, seen, checked, runs>>

WritePair(p) ==
    /\ cfg[p] # Idle
    /\ cfg[p].op = "write"
    /\ cfg[p].pending # <<>>
    /\ \E insertOk \in BOOLEAN :
          LET r == write_pair(cfg[p], Rows(ConfigNAME), insertOk)
          IN /\ store' = SetRows(r.rows)
             /\ CONFIG' = r.snapshot
             /\ cfg' = [cfg EXCEPT ![p] = IF r.fr.res = "run" THEN r.fr ELSE Idle]
             /\ last' = [op |-> "write", who |-> p,
                         res |-> IF r.fr.res = "run" THEN "pending" ELSE r.fr.res]
    /\ UNCHANGED <<exported, tasks, DB, pools, side, bak, imp, seen, checked, runs>>

WritePublish(p) ==
    /\ cfg[p] # Idle
    /\ cfg[p].op = "write"
    /\ cfg[p].pending = <<>>
    /\ LET pub == write_publish(cfg[p])
       IN /\ CONFIG' = pub.CONFIG
          /\ last' = [op |-> "write", who |-> p, res |-> pub.res]
    /\ cfg' = [cfg EXCEPT ![p] = Idle]
    /\ UNCHANGED <<exported, tasks, DB, pools, store, side, bak, imp, seen, checked, runs>>

NextConfigConc ==
    \/ \E p \in Callers : LoadFetch(p)
    \/ \E p \in Callers : LoadBegin(p)
    \/ \E p \in Callers : LoadKey(p)
    \/ \E p \in Callers : LoadPublish(p)
    \/ \E p \in Callers : WriteBegin(p)
    \/ \E p \in Callers : WritePair(p)
    \/ \E p \in Callers : WritePublish(p)
    \/ Read

InitConfigConc == Started(ConcConfigRows)

SpecConfigConc == InitConfigConc /\ [][NextConfigConc]_vars

\* Concurrent write() calls alone, on the started store (SpecConfigWrites).
NextConfigWrites ==
    \/ \E p \in Callers : WriteBegin(p)
    \/ \E p \in Callers : WritePair(p)
    \/ \E p \in Callers : WritePublish(p)

SpecConfigWrites == InitConfigConc /\ [][NextConfigWrites]_vars

(***************************************************************************)
(* cookies.rs.  A header line is a sequence of symbols: a symbol is one    *)
(* character ("=", ";", " ", "/") or a run of word characters taken whole  *)
(* (an attribute keyword, a name or value word, the calendar text of a     *)
(* well-formed Expires value, which begins and ends with a word character).*)
(***************************************************************************)
Keywords == {"path", "Path", "domain", "expires", "httponly", "secure"}
Words == {"sid", "abc", "malformed", "date"}
\* to_lowercase on a keyword.
Lower(k) == IF k = "Path" THEN "path" ELSE k
\* \w: the symbol is made of word characters.
IsWord(c) == c \in Keywords \cup Words

None == [some |-> FALSE]
Some(v) == [some |-> TRUE, v |-> v]

\* The least index of symbol c in h at or after i, or Len(h) + 1.
RECURSIVE Find(_, _, _)
Find(h, c, i) ==
    IF i > Len(h) THEN Len(h) + 1
    ELSE IF h[i] = c THEN i
    ELSE Find(h, c, i + 1)

\* str::trim.
RECURSIVE TrimStart(_)
TrimStart(q) == IF q # <<>> /\ Head(q) = " " THEN TrimStart(Tail(q)) ELSE q
RECURSIVE TrimEnd(_)
TrimEnd(q) ==
    IF q # <<>> /\ q[Len(q)] = " " THEN TrimEnd(SubSeq(q, 1, Len(q) - 1)) ELSE q
Trim(q) == TrimEnd(TrimStart(q))

\* RE_NAME_VALUE = ^([^=]+)=([^;]+) on the whole line: group 1 is everything
\* before the first "=", group 2 the run without ";" after it; both non-empty.
RE_NAME_VALUE(h) ==
    LET eq == Find(h, "=", 1)
        semi == Find(h, ";", eq + 1)
    IN IF eq > Len(h) \/ eq = 1 \/ semi = eq + 1
       THEN [ok |-> FALSE]
       ELSE [ok |-> TRUE,
             g1 |-> SubSeq(h, 1, eq - 1),
             g2 |-> SubSeq(h, eq + 1, semi - 1)]

\* A parse that takes any text for a time.
parse_expires_any(value) == [ok |-> TRUE, ts |-> <<"unix", value>>]

\* PrimitiveDateTime::parse(value, fmt)?.assume_utc().unix_timestamp()
parse_expires(value) ==
    IF value = <<"date">> THEN [ok |-> TRUE, ts |-> <<"unix", "date">>]
    ELSE [ok |-> FALSE]

\* Lines 122-138: one attribute match applied to the row.
apply_attribute(row, key, value) ==
    CASE key = "path" -> [row EXCEPT !.path = Some(value)]
      [] key = "domain" -> [row EXCEPT !.domain = Some(value)]
      [] key = "expires" ->
            IF parse_expires(value).ok
            THEN [row EXCEPT !.expires = Some(parse_expires(value).ts)]
            ELSE [row EXCEPT !.bad = TRUE]
      [] key = "httponly" -> [row EXCEPT !.httponly = TRUE]
      [] key = "secure" -> [row EXCEPT !.secure = TRUE]

\* RE_ATTRIBUTE = (?i)\b(path|domain|expires|httponly|secure)\b(?:=([^;]*))?
\* iterated over the line from symbol k on (captures_iter, line 118).
RECURSIVE scan_attributes(_, _, _)
scan_attributes(h, k, row) ==
    IF k > Len(h) \/ row.bad THEN row
    ELSE IF /\ h[k] \in Keywords
            /\ (k = 1 \/ ~IsWord(h[k - 1]))
            /\ (k = Len(h) \/ ~IsWord(h[k + 1]))
    THEN IF k < Len(h) /\ h[k + 1] = "="
         THEN LET semi == Find(h, ";", k + 2)
              IN scan_attributes(h, semi,
                    apply_attribute(row, Lower(h[k]), Trim(SubSeq(h, k + 2, semi - 1))))
         ELSE scan_attributes(h, k + 1, apply_attribute(row, Lower(h[k]), <<>>))
    ELSE scan_attributes(h, k + 1, row)

\* Lines 90-139: the CookieRow parsed from a header line, or the error.
parse_cookie(h) ==
    LET m == RE_NAME_VALUE(h)
    IN IF ~m.ok THEN [res |-> "InvalidCookie"]
       ELSE LET row == scan_attributes(h, 1,
                          [name |-> Trim(m.g1), value |-> Trim(m.g2),
                           path |-> None, domain |-> None, expires |-> None,
                           httponly |-> FALSE, secure |-> FALSE, bad |-> FALSE])
            IN IF row.bad THEN [res |-> "MalformedExpiry"]
               ELSE [res |-> "ok",
                     row |-> [name |-> row.name, value |-> row.value,
                              path |-> row.path, domain |-> row.domain,
                              expires |-> row.expires,
                              httponly |-> row.httponly, secure |-> row.secure]]

\* An upsert that leaves a column of the existing row in place where the new
\* row has none.
cookie_insert_keep(rows, h, execOk) ==
    LET p == parse_cookie(h)
        keep(old, new) == IF new.some THEN new ELSE old
    IN IF p.res # "ok" THEN [res |-> p.res, rows |-> rows]
       ELSE IF get_db # "ok" THEN [res |-> "NotInitialized", rows |-> rows]
       ELSE IF ~(execOk /\ CanQuery(CookiesNAME)) THEN [res |-> "QueryFailure", rows |-> rows]
       ELSE IF p.row.name \in DOMAIN rows
       THEN [res |-> "ok",
             rows |-> Put(rows, p.row.name,
                          [p.row EXCEPT !.path = keep(rows[p.row.name].path, @),
                                        !.domain = keep(rows[p.row.name].domain, @),
                                        !.expires = keep(rows[p.row.name].expires, @)])]
       ELSE [res |-> "ok", rows |-> Put(rows, p.row.name, p.row)]

\* insert(cookie): parse, then upsert the row keyed by name.
cookie_insert(rows, h, execOk) ==
    LET p == parse_cookie(h)
    IN IF p.res # "ok" THEN [res |-> p.res, rows |-> rows]
       ELSE IF get_db # "ok" THEN [res |-> "NotInitialized", rows |-> rows]
       ELSE IF ~(execOk /\ CanQuery(CookiesNAME)) THEN [res |-> "QueryFailure", rows |-> rows]
       ELSE [res |-> "ok", rows |-> Put(rows, p.row.name, p.row)]

\* delete(name)
cookie_delete(rows, name, execOk) ==
    IF get_db # "ok" THEN [res |-> "NotInitialized", rows |-> rows]
    ELSE IF ~(execOk /\ CanQuery(CookiesNAME)) THEN [res |-> "QueryFailure", rows |-> rows]
    ELSE [res |-> "ok", rows |-> [n \in (DOMAIN rows) \ {name} |-> rows[n]]]

\* load(): every stored name mapped to its value.
cookie_load(rows) ==
    IF get_db # "ok" THEN [res |-> "NotInitialized"]
    ELSE IF ~CanQuery(CookiesNAME) THEN [res |-> "QueryFailure"]
    ELSE [res |-> "ok", map |-> [n \in DOMAIN rows |-> rows[n].value]]

(***************************************************************************)
(* The Cookie Jar as actions (SpecCookies).                                *)
(***************************************************************************)
MaxCookies == 1

\* The header lines fed to insert(): a leading segment, then attributes.
Leads ==
    {<<"sid", "=", "abc">>, <<"malformed">>, <<"sid", "=">>, <<"=", "abc">>,
     <<" ", "sid", " ", "=", " ", "abc", " ">>, <<"path", "=", "secure">>}
AttributeLists ==
    {<<>>,
     <<";", "Path", "=", "/">>,
     <<";", " ", "secure">>,
     <<";", " ", "httponly">>,
     <<";", " ", "domain", "=", "abc">>,
     <<";", " ", "expires", "=", "date">>,
     <<";", " ", "expires", "=", "abc">>,
     <<";", " ", "Path", "=", "/", ";", " ", "domain", "=", "abc", ";", " ",
       "expires", "=", "date", ";", " ", "httponly", ";", " ", "secure">>}
Headers == {l \o a : l \in Leads, a \in AttributeLists}

CookieFrame == UNCHANGED <<exported, tasks, DB, pools, side, bak, imp, CONFIG, cfg, seen, checked, runs>>
SetCookieRows(rows) == [store EXCEPT !.img.tab[CookiesNAME].rows = rows]

CookieInsert ==
    /\ \E h \in Headers, execOk \in BOOLEAN :
          LET r == cookie_insert(Rows(CookiesNAME), h, execOk)
          IN /\ Cardinality(DOMAIN r.rows) <= MaxCookies
             /\ store' = SetCookieRows(r.rows)
             /\ last' = [op |-> "cookie_insert", hdr |-> h, execOk |-> execOk, res |-> r.res,
                        replaced |-> IF r.res = "ok" /\ RE_NAME_VALUE(h).ok
                                        /\ Trim(RE_NAME_VALUE(h).g1) \in DOMAIN Rows(CookiesNAME)
                                     THEN Some(Rows(CookiesNAME)[Trim(RE_NAME_VALUE(h).g1)])
                                     ELSE None]
    /\ CookieFrame

CookieDelete ==
    /\ \E name \in (DOMAIN Rows(CookiesNAME)) \cup {<<"sid">>}, execOk \in BOOLEAN :
          LET r == cookie_delete(Rows(CookiesNAME), name, execOk)
          IN /\ store' = SetCookieRows(r.rows)
             /\ last' = [op |-> "cookie_delete", name |-> name, execOk |-> execOk, res |-> r.res,
                         had |-> name \in DOMAIN Rows(CookiesNAME)]
    /\ CookieFrame

CookieLoad ==
    /\ last' = [op |-> "cookie_load"] @@ cookie_load(Rows(CookiesNAME))
    /\ store' = store
    /\ CookieFrame

InitCookies == Started({NoRows})

NextCookies ==
    \/ CookieInsert
    \/ CookieDelete
    \/ CookieLoad
    \/ CloseDb

SpecCookies == InitCookies /\ [][NextCookies]_vars

(***************************************************************************)
(* archive.rs.  A Task is owned by the queue; the archive needs its id and *)
(* its state, and carries every other field (title stands for them).       *)
(***************************************************************************)
TaskIds == {"t1", "t2"}
TaskStates == {"active", "paused", "completed"}
Titles == {"x", "y"}
Task == [id : TaskIds, state : TaskStates, title : Titles]

\* Serialize for Task.
task_to_value(task) ==
    JObj([id |-> JStr(task.id), state |-> JStr(task.state), title |-> JStr(task.title)])

\* serde_json::from_str::<Task>: the text must be JSON for an object with the
\* fields of Task, the state one of TaskState.
task_from_str(text) ==
    LET p == from_str(text)
    IN IF /\ p.ok
          /\ p.v.kind = "obj"
          /\ DOMAIN p.v.f = {"id", "state", "title"}
          /\ \A k \in DOMAIN p.v.f : p.v.f[k].kind = "str"
          /\ p.v.f["state"].s \in TaskStates
       THEN [ok |-> TRUE,
             task |-> [id |-> p.v.f["id"].s, state |-> p.v.f["state"].s,
                       title |-> p.v.f["title"].s]]
       ELSE [ok |-> FALSE]

\* A task held as it was read.
downgrade_none(task) == task

\* Lines 76-78: a task read as active is held as paused.
downgrade(task) ==
    IF task.state = "active" THEN [task EXCEPT !.state = "paused"] ELSE task

\* Lines 70-82: the loop over the fetched rows, in the order the query
\* returned them, from row k on; it stops at the first row that fails.
RECURSIVE load_rows(_, _, _, _)
load_rows(rows, order, k, map) ==
    IF k > Len(order) THEN [res |-> "ok", tasks |-> map]
    ELSE LET d == task_from_str(rows[order[k]])
         IN IF ~d.ok THEN [res |-> "Deserialize", tasks |-> map]
            ELSE load_rows(rows, order, k + 1, Put(map, d.task.id, downgrade(d.task)))

\* load(): fetch the rows, clear the task map, rebuild it from the rows.
archive_load(rows, order, map) ==
    IF get_db # "ok" THEN [res |-> "NotInitialized", tasks |-> map]
    ELSE IF ~CanQuery(ArchiveNAME) THEN [res |-> "QueryFailure", tasks |-> map]
    ELSE load_rows(rows, order, 1, NoTasks)

\* An upsert that keeps the row of an id that is already stored.
archive_upsert_first(rows, task, execOk) ==
    IF get_db # "ok" THEN [res |-> "NotInitialized", rows |-> rows]
    ELSE IF ~(execOk /\ CanQuery(ArchiveNAME)) THEN [res |-> "QueryFailure", rows |-> rows]
    ELSE [res |-> "ok",
          rows |-> IF task.id \in DOMAIN rows THEN rows
                   ELSE Put(rows, task.id, to_string(task_to_value(task)))]

\* upsert(task): one statement keyed by task.id (the updated_at column, which
\* nothing reads, is left out of the row).
archive_upsert(rows, task, execOk) ==
    IF get_db # "ok" THEN [res |-> "NotInitialized", rows |-> rows]
    ELSE IF ~(execOk /\ CanQuery(ArchiveNAME)) THEN [res |-> "QueryFailure", rows |-> rows]
    ELSE [res |-> "ok", rows |-> Put(rows, task.id, to_string(task_to_value(task)))]

\* A delete that fails when no row has the name.
archive_delete_strict(rows, name, execOk) ==
    IF get_db # "ok" THEN [res |-> "NotInitialized", rows |-> rows]
    ELSE IF ~(execOk /\ CanQuery(ArchiveNAME)) THEN [res |-> "QueryFailure", rows |-> rows]
    ELSE IF name \notin DOMAIN rows THEN [res |-> "NotFound", rows |-> rows]
    ELSE [res |-> "ok", rows |-> [n \in (DOMAIN rows) \ {name} |-> rows[n]]]

\* delete(name)
archive_delete(rows, name, execOk) ==
    IF get_db # "ok" THEN [res |-> "NotInitialized", rows |-> rows]
    ELSE IF ~(execOk /\ CanQuery(ArchiveNAME)) THEN [res |-> "QueryFailure", rows |-> rows]
    ELSE [res |-> "ok", rows |-> [n \in (DOMAIN rows) \ {name} |-> rows[n]]]

(***************************************************************************)
(* The Task Archive as actions (SpecArchive).                              *)
(***************************************************************************)
\* The orders in which a query may return the rows named in S.
Orders(S) ==
    {q \in [1..Cardinality(S) -> S] : \A i, j \in 1..Cardinality(S) : q[i] = q[j] => i = j}

\* What a row may hold at startup: a task as upsert stored it, text that is
\* not JSON, or JSON that is no Task.
StoredTaskValues(id) ==
    {to_string(task_to_value(t)) : t \in {u \in Task : u.id = id /\ u.title = "x"}}
        \cup {Malformed, to_string(JObj([id |-> JStr(id)]))}
InitArchiveRows ==
    UNION {{f \in [S -> UNION {StoredTaskValues(id) : id \in S}] :
               \A id \in S : f[id] \in StoredTaskValues(id)} : S \in SUBSET TaskIds}

ArchiveFrame == UNCHANGED <<exported, DB, pools, side, bak, imp, CONFIG, cfg, seen, checked, runs>>
SetArchiveRows(rows) == [store EXCEPT !.img.tab[ArchiveNAME].rows = rows]

ArchiveLoad ==
    /\ \E order \in Orders(DOMAIN Rows(ArchiveNAME)) :
          LET r == archive_load(Rows(ArchiveNAME), order, tasks)
          IN /\ tasks' = r.tasks
             /\ last' = [op |-> "archive_load", res |-> r.res]
    /\ store' = store
    /\ ArchiveFrame

ArchiveUpsert ==
    /\ \E task \in Task, execOk \in BOOLEAN :
          LET r == archive_upsert(Rows(ArchiveNAME), task, execOk)
          IN /\ store' = SetArchiveRows(r.rows)
             /\ last' = [op |-> "archive_upsert", task |-> task, res |-> r.res]
    /\ tasks' = tasks
    /\ ArchiveFrame

ArchiveDelete ==
    /\ \E name \in TaskIds, execOk \in BOOLEAN :
          LET r == archive_delete(Rows(ArchiveNAME), name, execOk)
          IN /\ store' = SetArchiveRows(r.rows)
             /\ last' = [op |-> "archive_delete", name |-> name, execOk |-> execOk, res |-> r.res,
                         had |-> name \in DOMAIN Rows(ArchiveNAME)]
    /\ tasks' = tasks
    /\ ArchiveFrame

\* The queue, which owns the task map, puts a task into it.
QueueSubmit ==
    /\ \E task \in Task :
          /\ tasks' = Put(tasks, task.id, task)
          /\ last' = [op |-> "submit", task |-> task, res |-> "ok"]
    /\ store' = store
    /\ ArchiveFrame

InitArchive ==
    StartedOn({[StartedImage(NoRows) EXCEPT !.tab[ArchiveNAME].rows = rows] :
                  rows \in InitArchiveRows})

NextArchive ==
    \/ ArchiveLoad
    \/ ArchiveUpsert
    \/ ArchiveDelete
    \/ QueueSubmit
    \/ CloseDb

SpecArchive == InitArchive /\ [][NextArchive]_vars

(***************************************************************************)
(* delete() of the Cookie Jar and of the Task Archive on a database that   *)
(* earlier runs have filled (SpecDelete).                                  *)
(***************************************************************************)
\* The rows insert() can have stored.
StoredCookieRows == {parse_cookie(h).row : h \in {g \in Headers : parse_cookie(g).res = "ok"}}
InitCookieRows ==
    UNION {{f \in [S -> StoredCookieRows] : \A n \in S : f[n].name = n} :
              S \in {T \in SUBSET {r.name : r \in StoredCookieRows} :
                        Cardinality(T) <= MaxCookies}}

InitDelete ==
    StartedOn({[StartedImage(NoRows) EXCEPT !.tab[ArchiveNAME].rows = rows,
                                            !.tab[CookiesNAME].rows = jar] :
                  rows \in InitArchiveRows, jar \in InitCookieRows})

NextDelete ==
    \/ CookieDelete
    \/ ArchiveDelete
    \/ CloseDb

SpecDelete == InitDelete /\ [][NextDelete]_vars

(***************************************************************************)
(* db.rs: export(), and import() of the exported file (SpecExport).        *)
(***************************************************************************)
\* export(output): checkpoint, then VACUUM INTO the output path, which fails
\* on a file that is already there.  target is the file at that path.
export(target, runOk) ==
    IF get_db # "ok" THEN [res |-> "NotInitialized", file |-> target]
    ELSE IF ~(runOk /\ PoolLive /\ store.present) THEN [res |-> "QueryFailure", file |-> target]
    ELSE IF target.present THEN [res |-> "QueryFailure", file |-> target]
    ELSE [res |-> "ok", file |-> [present |-> TRUE, img |-> store.img]]

\* export() to a new path, or to the path of the file exported last.
Export ==
    /\ imp.pc = "idle"
    /\ \E fresh \in BOOLEAN, runOk \in BOOLEAN :
          LET r == export(IF fresh THEN NoFile ELSE exported, runOk)
          IN /\ exported' = r.file
             /\ last' = [op |-> "export", res |-> r.res, fresh |-> fresh, runOk |-> runOk]
    /\ UNCHANGED <<tasks, DB, pools, store, side, bak, imp>>
    /\ ConfigIdle
    /\ StartupIdle

\* import() of the file exported last.
ImportExported ==
    /\ exported.present
    /\ ImportBegin({[readable |-> TRUE, img |-> exported.img]})

InitExport ==
    StartedOn({[StartedImage(rows) EXCEPT !.tab[ArchiveNAME].rows = arch] :
                  rows \in ConcConfigRows,
                  arch \in {f \in InitArchiveRows :
                              \A id \in DOMAIN f : f[id] = to_string(task_to_value(
                                  [id |-> id, state |-> "paused", title |-> "x"]))}})

NextExport ==
    \/ Export
    \/ ImportExported
    \/ ImportClose
    \/ ImportRemove
    \/ ImportCopy
    \/ ImportReopen
    \/ ArchiveDelete
    \/ Restart
    \/ InitDb

SpecExport == InitExport /\ [][NextExport]_vars

(***************************************************************************)
(* Properties of the connection manager (Spec).                            *)
(***************************************************************************)
IsPrefix(a, b) == Len(a) <= Len(b) /\ a = SubSeq(b, 1, Len(a))

\* C1: import(source) on an initialized connection manager with a readable
\* source (and no I/O failure on the way) returns Ok and leaves a live pool
\* on the imported file, so that later store operations succeed.
C1_ImportReinitializes ==
    (/\ last.op = "import"
     /\ last.step = "reopen"
     /\ last.res # "IoFailure"
     /\ imp.wasLive
     /\ imp.src.readable)
    => (/\ last.res = "ok"
        /\ PoolLive
        /\ store = [present |-> TRUE, img |-> imp.src.img])

\* C5: the handle is set exactly once per process.  An init_db() while the
\* handle is set never succeeds, fails with AlreadyInitialized whenever its
\* connect succeeded, and leaves the handle as it was; the handle goes from
\* unset to set only by an initialize that returns Ok; and get_db() fails with
\* NotInitialized whenever the handle is unset.
C5_SetOnce ==
    [][/\ (last'.op = "init_db" /\ DB.set)
            => /\ last'.res \in {"AlreadyInitialized", "IoFailure"}
               /\ (last'.res = "IoFailure" \/ pools' = pools + 1)
               /\ DB' = DB
       /\ (~DB.set /\ DB'.set)
            => /\ last'.op \in {"init_db", "import"}
               /\ last'.res = "ok"
       /\ (DB.set /\ DB'.set) => DB'.id = DB.id
       /\ (last'.op = "get_db" /\ ~DB.set) => last'.res = "NotInitialized"
      ]_vars

\* C5, its case: a second init_db() was refused and the first pool is in place.
C5_Witness ==
    /\ last.op = "init_db"
    /\ last.res = "AlreadyInitialized"
    /\ DB.set
    /\ DB.id = 1
    /\ pools = 2

\* The steps of import() in the order of the source.
ImportOrder ==
    <<"backup", "close", "remove_db", "remove_wal", "remove_shm", "copy", "reopen">>

\* C6: import performs backup, close, delete (file, -wal, -shm), copy-in,
\* reopen in exactly this order (the backup skipped, not failed, when there is
\* no current file); no deletion or copy-in happens while the pool is open.
C6_ImportOrder ==
    /\ IsPrefix(imp.log, IF imp.hadFile THEN ImportOrder ELSE Tail(ImportOrder))
    /\ imp.pc \in {"remove", "copy"} => ~PoolLive
    /\ (last.op = "import" /\ last.step = "reopen")
          => imp.log = (IF imp.hadFile THEN ImportOrder ELSE Tail(ImportOrder))
    /\ (last.op = "import" /\ last.step = "backup" /\ last.res = "IoFailure")
          => imp.hadFile

\* C6, its case: an import on a live pool with a current file ran all its steps.
C6_Witness ==
    /\ last.op = "import"
    /\ last.step = "reopen"
    /\ imp.wasLive
    /\ imp.hadFile
    /\ Len(imp.log) = 7
    /\ bak.present

(***************************************************************************)
(* Properties of the migration engine (SpecMigrate).                       *)
(***************************************************************************)
\* C2: after a successful check_latest pass on a table whose stored version
\* was below its target, every row the table held before the pass is readable
\* from the table of the same name.
C2_RowsKept ==
    [][(/\ last'.op = "check_latest"
        /\ last'.res = "ok"
        /\ last'.cur < LATEST(last'.table))
       => LET t == last'.table
          IN \A k \in DOMAIN store.img.tab[t].rows :
                /\ store'.img.tab[t].exists
                /\ k \in DOMAIN store'.img.tab[t].rows
                /\ store'.img.tab[t].rows[k] = store.img.tab[t].rows[k]
      ]_vars

\* C3: a successful check_latest pass leaves the stored version equal to the
\* target, and a pass that starts with the stored version equal to the target
\* performs no rename, no create and no version write.
C3_VersionAndNoop ==
    [][last'.op = "check_latest"
       => LET t == last'.table
          IN /\ last'.res = "ok" => get_version(store'.img, t) = LATEST(t)
             /\ get_version(store.img, t) = LATEST(t)
                   => /\ last'.did = {}
                      /\ store'.img.tab = store.img.tab
                      /\ store'.img.old = store.img.old
                      /\ store'.img.meta.ver = store.img.meta.ver
      ]_vars

\* C3, its case: a later startup pass over a table an earlier pass upgraded.
C3_Witness ==
    /\ last.op = "check_latest"
    /\ last.res = "ok"
    /\ last.cur = LATEST(last.table)
    /\ last.did = {}
    /\ runs > 0
    /\ Len(store.img.old[last.table]) > 0

\* C4: when a step of the upgrade of an existing table fails, the upgrade is
\* rolled back in full: the recorded versions are unchanged, and the table is
\* still there under its own name with its rows, no archival copy added.
C4_RollbackInFull ==
    [][(/\ last'.op = "check_latest"
        /\ last'.res = "QueryFailure"
        /\ "upgrade" \in last'.did
        /\ store.img.tab[last'.table].exists)
       => LET t == last'.table
          IN /\ store'.img.meta.ver = store.img.meta.ver
             /\ store'.img.tab[t] = store.img.tab[t]
             /\ store'.img.old[t] = store.img.old[t]
      ]_vars

\* C23: a pass of check_latest that records the target version of a table
\* has created the table in that pass, so the table is there in its current
\* shape.
C23_RecordedMeansCreated ==
    [][(last'.op = "check_latest" /\ "set_version" \in last'.did)
       => LET t == last'.table
          IN /\ "create" \in last'.did
             /\ store'.img.tab[t].exists
             /\ store'.img.tab[t].shape = LATEST(t)
      ]_vars

(***************************************************************************)
(* Properties of the Config Store, one call at a time (SpecConfig).        *)
(***************************************************************************)
\* The typed value of field n that a JSON value of the field's type stands for.
Typed(n, val) ==
    IF n \in ScalarFields THEN val.b ELSE [sk \in NestedKeys |-> val.f[sk].s]

\* C7: after a load() that returns Ok, read() and the persisted rows hold every
\* default field and every nested default key, and every field or nested key
\* stored before the load keeps its stored value in both (rows whose name is
\* no field are left as they were).
C7_LoadFillsGaps ==
    [][(last'.op = "load" /\ last'.res = "ok")
       => LET before == Rows(ConfigNAME)
              after == store'.img.tab[ConfigNAME].rows
              snap == to_value(CONFIG')
          IN /\ DOMAIN CONFIG' = Fields
             /\ \A n \in Fields : n \in DOMAIN after
             /\ \A n \in NestedFields :
                   /\ DOMAIN CONFIG'[n] = NestedKeys
                   /\ from_str(after[n]).ok
                   /\ from_str(after[n]).v.kind = "obj"
                   /\ NestedKeys \subseteq DOMAIN from_str(after[n]).v.f
             /\ \A n \in DOMAIN before :
                   LET v == from_str(before[n]).v
                   IN IF n \notin Fields THEN after[n] = before[n]
                      ELSE IF v.kind = "obj"
                      THEN \A sk \in DOMAIN v.f :
                              /\ from_str(after[n]).v.f[sk] = v.f[sk]
                              /\ sk \in NestedKeys => snap[n].f[sk] = v.f[sk]
                      ELSE /\ after[n] = before[n]
                           /\ snap[n] = v
      ]_vars

\* C7, its case: a load filled an absent field and an absent nested key and
\* kept the stored nested key.
C7_Witness ==
    /\ last.op = "load"
    /\ last.res = "ok"
    /\ last.persisted = {"notify", "proxy"}
    /\ CONFIG["proxy"]["address"] = "q"
    /\ CONFIG["proxy"]["username"] = ""
    /\ "retired" \in DOMAIN Rows(ConfigNAME)

\* C8: write() changes, in the rows and in the snapshot, only the known fields
\* it names, and never adds a row for a name that is no field; when it returns
\* Ok each known field it names holds the value given, in the rows and in the
\* snapshot; a write with no known name returns Ok, writes no row and does not
\* store a snapshot.
C8_WriteFilters ==
    [][last'.op = "write"
       => LET arg == last'.arg
              valid == {k \in DOMAIN arg : k \in Fields}
              before == Rows(ConfigNAME)
              after == store'.img.tab[ConfigNAME].rows
          IN /\ store' = [store EXCEPT !.img.tab[ConfigNAME].rows = after]
             /\ DOMAIN before \subseteq DOMAIN after
             /\ DOMAIN after \subseteq (DOMAIN before) \cup valid
             /\ \A k \in (DOMAIN before) \ valid : after[k] = before[k]
             /\ \A n \in Fields \ valid : CONFIG'[n] = CONFIG[n]
             /\ last'.persisted \subseteq valid
             /\ (last'.res = "ok" /\ valid # {})
                   => /\ last'.stored
                      /\ \A k \in valid :
                            /\ after[k] = to_string(arg[k])
                            /\ FieldOk(k, arg[k])
                            /\ CONFIG'[k] = Typed(k, arg[k])
             /\ valid = {}
                   => /\ last'.res = "ok"
                      /\ ~last'.stored
                      /\ last'.persisted = {}
                      /\ store' = store
                      /\ CONFIG' = CONFIG
      ]_vars

\* C8, its case: a write of a known and an unknown name has set the known one.
C8_Witness ==
    /\ last.op = "write"
    /\ last.res = "ok"
    /\ last.stored
    /\ DOMAIN last.arg = {"bogus", "notify"}
    /\ "bogus" \notin DOMAIN Rows(ConfigNAME)
    /\ Rows(ConfigNAME)["notify"] = to_string(JBool(FALSE))
    /\ CONFIG["notify"] = FALSE
    /\ "proxy" \notin DOMAIN Rows(ConfigNAME)

\* C20: a load() on a config table with a row whose text is not JSON returns
\* an error, stores no snapshot and changes no row.
C20_LoadFailFast ==
    [][(last'.op = "load" /\ \E k \in DOMAIN Rows(ConfigNAME) : ~Rows(ConfigNAME)[k].wf)
       => /\ last'.res # "ok"
          /\ CanQuery(ConfigNAME) => last'.res = "SerializationFailure"
          /\ ~last'.stored
          /\ last'.persisted = {}
          /\ CONFIG' = CONFIG
          /\ store' = store
      ]_vars

\* C20, its case: the load failed on a damaged row while a field had no row,
\* and the field still has none.
C20_Witness ==
    /\ last.op = "load"
    /\ last.res = "SerializationFailure"
    /\ "notify" \in DOMAIN Rows(ConfigNAME)
    /\ ~Rows(ConfigNAME)["notify"].wf
    /\ "proxy" \notin DOMAIN Rows(ConfigNAME)
    /\ CONFIG = DefaultSettings

\* C22: a write() that returns an error has changed no config row.
C22_FailedWriteKeepsRows ==
    [][(last'.op = "write" /\ last'.res # "ok") => store' = store]_vars

(***************************************************************************)
(* Properties of the Config Store under concurrency (SpecConfigConc).      *)
(***************************************************************************)
\* The complete result of the call of frame fr: for a write, the snapshot it
\* read at its start with every accepted pair applied; for a load, the rows it
\* read with every gap filled.
CompleteResult(fr) ==
    IF fr.op = "write"
    THEN LET valid == {k \in DOMAIN fr.arg : k \in DOMAIN fr.base}
         IN from_value([n \in DOMAIN fr.base |->
                           IF n \in valid THEN fr.arg[n] ELSE fr.base[n]])
    ELSE from_value([n \in (DOMAIN fr.local0) \cup (DOMAIN fr.defaults) |->
                        IF n \notin DOMAIN fr.local0 THEN fr.defaults[n]
                        ELSE IF n \in DOMAIN fr.defaults
                                /\ fr.defaults[n].kind = "obj"
                                /\ fr.local0[n].kind = "obj"
                        THEN JObj([sk \in (DOMAIN fr.defaults[n].f)
                                          \cup (DOMAIN fr.local0[n].f) |->
                                     IF sk \in DOMAIN fr.local0[n].f
                                     THEN fr.local0[n].f[sk]
                                     ELSE fr.defaults[n].f[sk]])
                        ELSE fr.local0[n]])

\* C9: the published snapshot changes only in the one step that ends a write()
\* or a load(), and then to the complete result of that call; so a read() at
\* any point of a call in flight returns the snapshot from before the call or
\* the one with all of its pairs applied, never one with some of them.
C9_SnapshotAtomic ==
    [][/\ CONFIG' # CONFIG
            => \E p \in Callers :
                  /\ cfg[p] # Idle
                  /\ cfg'[p] = Idle
                  /\ CompleteResult(cfg[p]).ok
                  /\ CONFIG' = CompleteResult(cfg[p]).s
       /\ last'.op = "read" => seen' = CONFIG
      ]_vars

\* C9, its case: a read() between the two inserts of a write() of two pairs
\* returned the snapshot from before the write.
C9_Witness ==
    /\ cfg["a"] # Idle
    /\ cfg["a"].op = "write"
    /\ Cardinality(cfg["a"].persisted) = 1
    /\ Len(cfg["a"].pending) = 1
    /\ last.op = "read"
    /\ seen = from_value(cfg["a"].base).s
    /\ Rows(ConfigNAME)["notify"] = to_string(JBool(FALSE))
    /\ seen["notify"] = TRUE
    /\ cfg["b"] = Idle

\* C19: the value load() inserts and persists for a top-level field that the
\* rows it fetched do not have is the compiled-in default of that field.
C19_CompiledDefaults ==
    [][\A p \in Callers :
          (/\ cfg[p] # Idle /\ cfg[p].op = "load"
           /\ cfg'[p] # Idle /\ cfg'[p].op = "load"
           /\ cfg'[p].persisted # cfg[p].persisted)
          => \A k \in (cfg'[p].persisted \ cfg[p].persisted) \ DOMAIN cfg[p].local0 :
                /\ cfg'[p].local[k] = to_value(DefaultSettings)[k]
                /\ store'.img.tab[ConfigNAME].rows[k] = to_string(to_value(DefaultSettings)[k])
      ]_vars

\* The persisted row of field n, if there is one, is the text of the field in
\* the snapshot s.
Agrees(rows, s, n) == n \in DOMAIN rows => rows[n] = to_string(to_value(s)[n])

\* C21: a write() that returns Ok leaves the snapshot in agreement with the
\* persisted rows on every field on which they agreed before it published,
\* whichever other writes ran beside it.
C21_NoLostUpdate ==
    [][(last'.op = "write" /\ last'.res = "ok")
       => \A n \in Fields :
             Agrees(Rows(ConfigNAME), CONFIG, n)
                => Agrees(store'.img.tab[ConfigNAME].rows, CONFIG', n)
      ]_vars

(***************************************************************************)
(* Properties of the Cookie Jar (SpecCookies).                             *)
(***************************************************************************)
\* The text before the first ";" of a header line.
LeadingSegment(h) == SubSeq(h, 1, Find(h, ";", 1) - 1)

\* C10: insert() of a header whose leading segment holds no "=" fails with
\* InvalidCookie and writes no row (the pool being live and the statement
\* not failing, so that no database error stands in for the parse result).
C10_MalformedRejected ==
    [][(/\ last'.op = "cookie_insert"
        /\ PoolLive /\ last'.execOk
        /\ Find(LeadingSegment(last'.hdr), "=", 1) > Len(LeadingSegment(last'.hdr)))
       => /\ last'.res = "InvalidCookie"
          /\ store' = store
      ]_vars

\* The text from the first ";" of a header line on.
Remainder(h) == SubSeq(h, Find(h, ";", 1), Len(h))

\* The attribute columns of a row.
Attributes(row) ==
    [path |-> row.path, domain |-> row.domain, expires |-> row.expires,
     httponly |-> row.httponly, secure |-> row.secure]

\* The attributes named in the text q, or the failure of its Expires value.
AttributesIn(q) ==
    scan_attributes(q, 1,
        [path |-> None, domain |-> None, expires |-> None,
         httponly |-> FALSE, secure |-> FALSE, bad |-> FALSE])

\* C11: insert() of a header whose leading segment is name=value stores the
\* attributes named in the remainder of the header and no other, and fails
\* only if the remainder's Expires value does (the pool being live and the
\* statement not failing).
C11_AttributesFromRemainder ==
    [][(/\ last'.op = "cookie_insert"
        /\ PoolLive /\ last'.execOk
        /\ RE_NAME_VALUE(LeadingSegment(last'.hdr)).ok)
       => LET want == AttributesIn(Remainder(last'.hdr))
              name == Trim(RE_NAME_VALUE(LeadingSegment(last'.hdr)).g1)
              after == store'.img.tab[CookiesNAME].rows
          IN IF want.bad THEN last'.res = "MalformedExpiry"
             ELSE /\ last'.res = "ok"
                  /\ name \in DOMAIN after
                  /\ Attributes(after[name]) = Attributes(want)
      ]_vars


\* C12: an insert() that returns Ok leaves under the header's name exactly the
\* row parsed from that header alone and changes no other row; an insert()
\* that fails and load() change no row; delete() changes no row of another
\* name; load() maps every stored name to its stored value.
C12_FullOverwrite ==
    [][LET before == Rows(CookiesNAME)
           after == store'.img.tab[CookiesNAME].rows
       IN /\ (last'.op = "cookie_insert" /\ last'.res = "ok")
                => LET p == parse_cookie(last'.hdr)
                   IN /\ p.res = "ok"
                      /\ DOMAIN after = (DOMAIN before) \cup {p.row.name}
                      /\ after[p.row.name] = p.row
                      /\ \A n \in (DOMAIN before) \ {p.row.name} : after[n] = before[n]
          /\ (last'.op = "cookie_insert" /\ last'.res # "ok") => after = before
          /\ last'.op = "cookie_delete"
                => \A n \in (DOMAIN after) : n \in DOMAIN before /\ after[n] = before[n]
          /\ (last'.op = "cookie_load" /\ last'.res = "ok")
                => /\ after = before
                   /\ DOMAIN last'.map = DOMAIN before
                   /\ \A n \in DOMAIN before : last'.map[n] = before[n].value
      ]_vars

\* C12, its case: a header without attributes has replaced a row of the same
\* name that had a path, and the stored row has none.
C12_Witness ==
    /\ last.op = "cookie_insert"
    /\ last.res = "ok"
    /\ last.hdr = <<"sid", "=", "abc">>
    /\ last.replaced.some
    /\ last.replaced.v.path.some
    /\ last.replaced.v.secure
    /\ Rows(CookiesNAME)[<<"sid">>] = parse_cookie(last.hdr).row
    /\ ~Rows(CookiesNAME)[<<"sid">>].path.some


\* The headers whose remainder holds an Expires attribute that is not the
\* calendar text.
BadExpiry(h) ==
    \E k \in 1..Len(Remainder(h)) :
        /\ Lower(Remainder(h)[k]) = "expires"
        /\ LET q == Remainder(h)
               semi == Find(q, ";", k + 1)
           IN IF k < Len(q) /\ q[k + 1] = "="
              THEN Trim(SubSeq(q, k + 2, semi - 1)) # <<"date">>
              ELSE TRUE

\* C13: insert() of a header with a leading name=value segment and an Expires
\* attribute whose value is not the calendar text returns an error and leaves
\* the cookie table as it was.
C13_BadExpiryFailsInsert ==
    [][(/\ last'.op = "cookie_insert"
        /\ RE_NAME_VALUE(LeadingSegment(last'.hdr)).ok
        /\ BadExpiry(last'.hdr))
       => /\ last'.res # "ok"
          /\ (PoolLive /\ last'.execOk) => last'.res = "MalformedExpiry"
          /\ store' = store
      ]_vars

\* C13, its case: the insert failed on its Expires value while a row of the
\* same name was stored, and the row still has its path.
C13_Witness ==
    /\ last.op = "cookie_insert"
    /\ last.res = "MalformedExpiry"
    /\ last.hdr = <<"sid", "=", "abc", ";", " ", "expires", "=", "abc">>
    /\ <<"sid">> \in DOMAIN Rows(CookiesNAME)
    /\ Rows(CookiesNAME)[<<"sid">>].path.some


(***************************************************************************)
(* Properties of the Task Archive (SpecArchive).                           *)
(***************************************************************************)
\* C14: a load() that returns Ok holds every persisted task, an active one as
\* paused and any other as persisted, and nothing else, so no held task is
\* active; load() never changes the database.
C14_ActiveHeldPaused ==
    [][last'.op = "archive_load"
       => /\ store' = store
          /\ last'.res = "ok"
                => /\ \A n \in DOMAIN Rows(ArchiveNAME) :
                         LET d == task_from_str(Rows(ArchiveNAME)[n])
                         IN /\ d.ok
                            /\ d.task.id \in DOMAIN tasks'
                            /\ tasks'[d.task.id] =
                                  IF d.task.state = "active"
                                  THEN [d.task EXCEPT !.state = "paused"]
                                  ELSE d.task
                   /\ \A id \in DOMAIN tasks' :
                         /\ id \in DOMAIN Rows(ArchiveNAME)
                         /\ tasks'[id].state # "active"
      ]_vars

\* C14, its case: a load() returned Ok on an active and a completed task.
C14_Witness ==
    /\ last.op = "archive_load"
    /\ last.res = "ok"
    /\ DOMAIN Rows(ArchiveNAME) = {"t1", "t2"}
    /\ task_from_str(Rows(ArchiveNAME)["t1"]).task.state = "active"
    /\ task_from_str(Rows(ArchiveNAME)["t2"]).task.state = "completed"
    /\ tasks["t1"].state = "paused"
    /\ tasks["t2"].state = "completed"

\* C15: a load() that fails on a row leaves the task map as it was before the
\* call.
C15_LoadAllOrNothing ==
    [][(last'.op = "archive_load" /\ last'.res = "Deserialize") => tasks' = tasks]_vars


\* A task with its state left out of the comparison.
SansState(task) == [id |-> task.id, title |-> task.title]

\* C16: an upsert() that returns Ok leaves exactly one row under task.id, from
\* which the task deserializes as it was given, and changes no row of another
\* id; a load() that returns Ok holds under each persisted id the persisted
\* task, equal in every field except possibly state.
C16_RoundTrip ==
    [][LET before == Rows(ArchiveNAME)
           after == store'.img.tab[ArchiveNAME].rows
       IN /\ (last'.op = "archive_upsert" /\ last'.res = "ok")
                => /\ DOMAIN after = (DOMAIN before) \cup {last'.task.id}
                   /\ task_from_str(after[last'.task.id]) = [ok |-> TRUE, task |-> last'.task]
                   /\ \A n \in (DOMAIN before) \ {last'.task.id} : after[n] = before[n]
          /\ (last'.op = "archive_upsert" /\ last'.res # "ok") => after = before
          /\ (last'.op = "archive_load" /\ last'.res = "ok")
                => /\ DOMAIN tasks' = DOMAIN before
                   /\ \A n \in DOMAIN before :
                         /\ task_from_str(before[n]).ok
                         /\ tasks'[n].id = n
                         /\ SansState(tasks'[n]) = SansState(task_from_str(before[n]).task)
      ]_vars

\* C16, its case: a load() handed back, under an id upserted more than once,
\* the task of the latest upsert, the other id's row being as it was stored.
C16_Witness ==
    /\ last.op = "archive_load"
    /\ last.res = "ok"
    /\ DOMAIN tasks = {"t1", "t2"}
    /\ tasks["t1"] = [id |-> "t1", state |-> "completed", title |-> "y"]
    /\ Rows(ArchiveNAME)["t1"] = to_string(task_to_value(tasks["t1"]))
    /\ tasks["t2"] = [id |-> "t2", state |-> "paused", title |-> "x"]
    /\ task_from_str(Rows(ArchiveNAME)["t2"]).task.state = "active"


(***************************************************************************)
(* Properties of delete() (SpecDelete).                                    *)
(***************************************************************************)
\* C17: delete() of either store, the statement not failing, returns Ok
\* whether or not a row has the key; it leaves no row under the key, changes
\* no other row of its table and nothing else in the database; a delete()
\* that fails changes nothing.
C17_DeleteIdempotent ==
    [][\A t \in {CookiesNAME, ArchiveNAME} :
          last'.op = (IF t = CookiesNAME THEN "cookie_delete" ELSE "archive_delete")
             => LET before == Rows(t)
                    after == store'.img.tab[t].rows
                IN /\ (CanQuery(t) /\ last'.execOk) => last'.res = "ok"
                   /\ store' = [store EXCEPT !.img.tab[t].rows = after]
                   /\ DOMAIN after \subseteq DOMAIN before
                   /\ \A n \in (DOMAIN before) \ {last'.name} :
                         n \in DOMAIN after /\ after[n] = before[n]
                   /\ IF last'.res = "ok" THEN last'.name \notin DOMAIN after
                      ELSE after = before
      ]_vars

\* C17, its case: a delete() of an id no row has returned Ok and the row of
\* the other id is still there.
C17_Witness ==
    /\ last.op = "archive_delete"
    /\ last.res = "ok"
    /\ ~last.had
    /\ last.name = "t1"
    /\ DOMAIN Rows(ArchiveNAME) = {"t2"}
    /\ <<"sid">> \in DOMAIN Rows(CookiesNAME)


(***************************************************************************)
(* Properties of export and import (SpecExport).                           *)
(***************************************************************************)
\* C18: an export() that returns Ok leaves the handle, its pool and the
\* database as they were and writes a file holding every row of the database;
\* an import() of the exported file, begun on a live connection and run to its
\* end without an I/O failure, returns Ok and leaves a live connection on a
\* database whose rows are those of the exported file.
C18_ExportImportRoundTrip ==
    [][/\ (last'.op = "export" /\ last'.res = "ok")
            => /\ DB' = DB /\ PoolLive'
               /\ store' = store
               /\ exported' = [present |-> TRUE, img |-> store.img]
       /\ (/\ last'.op = "import"
           /\ last'.step = "reopen"
           /\ last'.res # "IoFailure"
           /\ imp'.wasLive
           /\ exported.present
           /\ imp'.src = [readable |-> TRUE, img |-> exported.img])
            => /\ last'.res = "ok"
               /\ PoolLive'
               /\ store'.present
               /\ store'.img.meta = exported.img.meta
               /\ \A t \in Tables : store'.img.tab[t].rows = exported.img.tab[t].rows
      ]_vars


====
